---- MODULE Spec2Model ----
(***************************************************************************)
(* Model of extract_annotations.py: the extractor                          *)
(* (extract_annotations_from_json), the file-name sanitizer                *)
(* (sanitize_filename), the per-book renderer (save_book_to_pdf) and the   *)
(* main flow (__main__).                                                   *)
(*                                                                         *)
(* Python values are tagged records [t, v]:                                *)
(*   t = "none"  None / JSON null                                          *)
(*   t = "str"   v is the sequence of the string's characters              *)
(*   t = "int"   v is the sequence of the number's decimal digits          *)
(*   t = "bool"  v is <<"1">> or <<"0">>                                    *)
(*   t = "list"  v is the sequence of the elements                         *)
(*   t = "dict"  v is a function from the keys present to their values     *)
(* Documents, their 'data' and their citations are JSON objects (dicts),   *)
(* as the export writes them; the shape of the top-level value and of      *)
(* 'docs' and 'citations' is free.                                         *)
(***************************************************************************)
EXTENDS Integers, Sequences, FiniteSets, TLC

VARIABLES
    pc,                 \* position of the run
    file,               \* the input file: [exists, valid_json, data]
    pdf,                \* args.pdf
    all_annotations_data, \* result of extract_annotations_from_json
    books_order,        \* keys of books_data, in insertion order
    books_data,         \* book_name -> its rows, for the keys in books_order
    next_book,          \* index in books_order of the next book to render
    files,              \* the PDF files written: path -> document
    writes,             \* the paths written, one entry per write, in order
    stdout,             \* what was printed, in order
    exit_status,        \* "running", 0, or "traceback"
    title_in,           \* sanitize_filename / save_book_to_pdf harness: title
    anns_in,            \* save_book_to_pdf harness: book_annotations
    name_out            \* sanitize_filename harness: the result

vars == <<pc, file, pdf, all_annotations_data, books_order, books_data,
          next_book, files, writes, stdout, exit_status, title_in, anns_in,
          name_out>>

(***************************************************************************)
(* Bounds of the model.                                                    *)
(***************************************************************************)
MaxDocs == 3
MaxCits == 2
MaxTitleLen == 2

(***************************************************************************)
(* Python values.                                                          *)
(***************************************************************************)
None == [t |-> "none", v |-> <<>>]
Str(s) == [t |-> "str", v |-> s]
Num(digits) == [t |-> "int", v |-> digits]
Bool(b) == [t |-> "bool", v |-> IF b THEN <<"1">> ELSE <<"0">>]
List(s) == [t |-> "list", v |-> s]
Dict(d) == [t |-> "dict", v |-> d]
EmptyDict == Dict(<<>>)

\* Truth value of a Python object (the `not x` / `if x` tests).
Truthy(x) ==
    CASE x.t = "none" -> FALSE
      [] x.t = "str"  -> x.v # <<>>
      [] x.t = "int"  -> x.v # <<"0">>
      [] x.t = "bool" -> x.v = <<"1">>
      [] x.t = "list" -> x.v # <<>>
      [] x.t = "dict" -> DOMAIN x.v # {}

\* dict.get(key, default) on a dict value.
Get(d, key, default) == IF key \in DOMAIN d.v THEN d.v[key] ELSE default

\* str(x)
ToStr(x) ==
    CASE x.t = "none" -> <<"N", "o", "n", "e">>
      [] x.t = "str"  -> x.v
      [] x.t = "int"  -> x.v
      [] x.t = "bool" -> IF x.v = <<"1">> THEN <<"T", "r", "u", "e">>
                                           ELSE <<"F", "a", "l", "s", "e">>

\* Whether sub occurs in s as a contiguous substring (`sub in s` on strings).
IsSubstring(sub, s) ==
    \E i \in 0..(Len(s) - Len(sub)) : SubSeq(s, i + 1, i + Len(sub)) = sub

Min(a, b) == IF a <= b THEN a ELSE b

UnknownTitle ==
    <<"U", "n", "k", "n", "o", "w", "n", " ", "T", "i", "t", "l", "e">>
DocsKey == <<"d", "o", "c", "s">>

(***************************************************************************)
(* What the program prints: [kind, arg].                                   *)
(***************************************************************************)
Msg(kind, arg) == [kind |-> kind, arg |-> arg]

(***************************************************************************)
(* extract_annotations_from_json                                           *)
(***************************************************************************)
\* Lines 41-44: the book name of a document.
book_name_of(doc) ==
    LET data == Get(doc, "data", EmptyDict)
        book_name == Get(data, "doc_title", None)
    IN  IF ~Truthy(book_name)
        THEN Get(data, "doc_file_name_title", Str(UnknownTitle))
        ELSE book_name

\* Lines 52-63: the record of one citation.
citation_record(book_name, citation) ==
    [book_name   |-> book_name,
     page_number |-> Get(citation, "note_page", None),
     quote       |-> Get(citation, "note_body", None),
     annotation  |-> Get(citation, "note_extra", None)]

\* Mutant of line 57: `if quote or annotation`.
citation_qualifies_either(citation) ==
    \/ Truthy(Get(citation, "note_body", None))
    \/ Truthy(Get(citation, "note_extra", None))

\* Line 57: `if quote and annotation`.
citation_qualifies(citation) ==
    /\ Truthy(Get(citation, "note_body", None))
    /\ Truthy(Get(citation, "note_extra", None))

\* Lines 47-49: `if not citations or not isinstance(citations, list): continue`.
citations_skipped(doc) ==
    LET citations == Get(doc, "citations", None)
    IN  ~Truthy(citations) \/ citations.t # "list"

\* Lines 51-63: the inner loop, appending to extracted_data.
RECURSIVE citation_loop(_, _, _, _)
citation_loop(book_name, citations, j, extracted_data) ==
    IF j > Len(citations) THEN extracted_data
    ELSE citation_loop(book_name, citations, j + 1,
            IF citation_qualifies(citations[j])
            THEN Append(extracted_data, citation_record(book_name, citations[j]))
            ELSE extracted_data)

\* Lines 40-63: the loop over data['docs'].
RECURSIVE doc_loop(_, _, _)
doc_loop(docs, i, extracted_data) ==
    IF i > Len(docs) THEN extracted_data
    ELSE IF citations_skipped(docs[i])
         THEN doc_loop(docs, i + 1, extracted_data)
         ELSE doc_loop(docs, i + 1,
                  citation_loop(book_name_of(docs[i]),
                                docs[i].v["citations"].v, 1, extracted_data))

Returned(value, out) == [raised |-> FALSE, value |-> value, out |-> out]
Raised(out) == [raised |-> TRUE, value |-> <<>>, out |-> out]

\* Line 36, first operand: `'docs' not in data`. Membership is the key test
\* on a dict, the element test on a list, the substring test on a string,
\* and a TypeError on a number, a boolean or null.
docs_in_raises(data) == data.t \in {"none", "int", "bool"}
docs_in(data) ==
    CASE data.t = "dict" -> "docs" \in DOMAIN data.v
      [] data.t = "list" -> \E i \in 1..Len(data.v) : data.v[i] = Str(DocsKey)
      [] data.t = "str"  -> IsSubstring(DocsKey, data.v)
      [] OTHER           -> FALSE

\* Lines 25-65.
extract_annotations_from_json(f) ==
    IF ~f.exists
    THEN Returned(<<>>, <<Msg("error_file_not_found", None)>>)
    ELSE IF ~f.valid_json
    THEN Returned(<<>>, <<Msg("error_json_decode", None)>>)
    ELSE IF docs_in_raises(f.data)
    THEN Raised(<<>>)                       \* TypeError: not iterable
    ELSE IF ~docs_in(f.data)
    THEN Returned(<<>>, <<Msg("error_missing_docs", None)>>)
    ELSE IF f.data.t # "dict"
    THEN Raised(<<>>)                       \* TypeError: data['docs']
    ELSE IF f.data.v["docs"].t # "list"
    THEN Returned(<<>>, <<Msg("error_missing_docs", None)>>)
    ELSE Returned(doc_loop(f.data.v["docs"].v, 1, <<>>), <<>>)

(***************************************************************************)
(* sanitize_filename                                                       *)
(***************************************************************************)
\* Line 70: the character class of the regular expression.
IllegalChars == {"\\", "/", "*", "?", ":", "\"", "<", ">", "|"}
\* Line 75: the length the name is cut to.
TruncLen == 200

\* Line 70: re.sub(r'[\\/*?:"<>|]', "", filename)
RemoveIllegal(s) == SelectSeq(s, LAMBDA c : c \notin IllegalChars)
\* Line 72: filename.replace(" ", "_")
ReplaceSpaces(s) == [i \in 1..Len(s) |-> IF s[i] = " " THEN "_" ELSE s[i]]
\* Mutant of line 75: the cut one character late.
TruncateLate(s) == SubSeq(s, 1, Min(TruncLen + 1, Len(s)))
\* Line 75: filename[:200]
Truncate(s) == SubSeq(s, 1, Min(TruncLen, Len(s)))

\* Lines 67-75.
sanitize_filename(filename) == Truncate(ReplaceSpaces(RemoveIllegal(filename)))

(***************************************************************************)
(* save_book_to_pdf                                                        *)
(***************************************************************************)
Suffix ==
    <<"_", "A", "n", "n", "o", "t", "a", "t", "i", "o", "n", "s",
      ".", "p", "d", "f">>
BasePath == <<".">>

\* Line 91: os.path.join(base_path, f"{safe_title}_Annotations.pdf")
pdf_filename(base_path, safe_title) ==
    base_path \o <<"/">> \o safe_title \o Suffix

\* Lines 111-121: the table's data rows.
table_rows(book_annotations) ==
    [k \in 1..Len(book_annotations) |->
        [page       |-> ToStr(book_annotations[k].page_number),
         quote      |-> ToStr(book_annotations[k].quote),
         annotation |-> ToStr(book_annotations[k].annotation)]]

\* Lines 99-142: the story of the document. A document with only the header
\* row gets the notice in place of the table.
story(book_title, book_annotations) ==
    LET rows == table_rows(book_annotations)
    IN  [title  |-> book_title.v,
         notice |-> (1 + Len(rows) = 1),
         header |-> <<"Page No.", "Quote", "Annotation">>,
         rows   |-> rows]

\* What the libraries do during one call: everything works, building a
\* Paragraph raises (lines 102, 118-120), building the Table raises (line
\* 127), or doc.build raises (line 145).
RenderOutcomes == {"ok", "paragraph_error", "table_error", "build_error"}

Put(fs, path, doc) ==
    [p \in DOMAIN fs \cup {path} |-> IF p = path THEN doc ELSE fs[p]]

SaveResult(raised, fs, written, out) ==
    [raised |-> raised, files |-> fs, written |-> written, out |-> out]

\* Lines 77-148. fs: the files on disk before the call.
save_book_to_pdf(book_title, book_annotations, outcome, fs) ==
    IF book_annotations = <<>>
    THEN SaveResult(FALSE, fs, <<>>,
                    <<Msg("no_annotations_to_save", book_title)>>)
    ELSE IF book_title.t # "str"
    THEN SaveResult(TRUE, fs, <<>>, <<>>)       \* re.sub: TypeError
    ELSE IF outcome \in {"paragraph_error", "table_error"}
    THEN SaveResult(TRUE, fs, <<>>, <<>>)       \* outside the try
    ELSE IF outcome = "build_error"
    THEN SaveResult(FALSE, fs, <<>>,
                    <<Msg("error_generating_pdf", book_title)>>)
    ELSE LET path == pdf_filename(BasePath, sanitize_filename(book_title.v))
         IN  SaveResult(FALSE,
                        Put(fs, path, story(book_title, book_annotations)),
                        <<path>>,
                        <<Msg("successfully_generated", Str(path))>>)

(***************************************************************************)
(* __main__                                                                *)
(***************************************************************************)
\* Lines 172-176: the row kept for the PDF table.
group_row(item) ==
    [page_number |-> item.page_number,
     quote       |-> item.quote,
     annotation  |-> item.annotation]

\* Mutant of lines 169-170: a new book is put before the books seen so far.
RECURSIVE group_loop_newest_first(_, _, _, _)
group_loop_newest_first(items, k, order, data) ==
    IF k > Len(items) THEN [order |-> order, data |-> data]
    ELSE LET book_name == items[k].book_name
             isNew == book_name \notin DOMAIN data
             order1 == IF isNew THEN <<book_name>> \o order ELSE order
             data1 == IF isNew
                      THEN [b \in DOMAIN data \cup {book_name} |->
                               IF b = book_name THEN <<>> ELSE data[b]]
                      ELSE data
         IN  group_loop_newest_first(items, k + 1, order1,
                 [data1 EXCEPT ![book_name] = Append(@, group_row(items[k]))])

\* Mutant of lines 169-176: the list of a book is started again at each of
\* its records.
RECURSIVE group_loop_restart(_, _, _, _)
group_loop_restart(items, k, order, data) ==
    IF k > Len(items) THEN [order |-> order, data |-> data]
    ELSE LET book_name == items[k].book_name
             isNew == book_name \notin DOMAIN data
             order1 == IF isNew THEN Append(order, book_name) ELSE order
         IN  group_loop_restart(items, k + 1, order1,
                 [b \in DOMAIN data \cup {book_name} |->
                     IF b = book_name THEN <<group_row(items[k])>>
                     ELSE data[b]])

\* Lines 166-176: the grouping loop. order: the keys of books_data in
\* insertion order; data: books_data.
RECURSIVE group_loop(_, _, _, _)
group_loop(items, k, order, data) ==
    IF k > Len(items) THEN [order |-> order, data |-> data]
    ELSE LET book_name == items[k].book_name
             isNew == book_name \notin DOMAIN data
             order1 == IF isNew THEN Append(order, book_name) ELSE order
             data1 == IF isNew
                      THEN [b \in DOMAIN data \cup {book_name} |->
                               IF b = book_name THEN <<>> ELSE data[b]]
                      ELSE data
         IN  group_loop(items, k + 1, order1,
                 [data1 EXCEPT ![book_name] = Append(@, group_row(items[k]))])

\* Lines 187-191: one console block.
console_block(item) ==
    Msg("block", [book       |-> ToStr(item.book_name),
                  page       |-> ToStr(item.page_number),
                  quote      |-> ToStr(item.quote),
                  annotation |-> ToStr(item.annotation)])

(***************************************************************************)
(* The inputs of a run.                                                    *)
(***************************************************************************)
SeqsUpTo(S, n) == UNION {[1..k -> S] : k \in 0..n}

\* A key left out of a dict under construction.
NoKey == [t |-> "absent", v |-> <<>>]
DictOf(f) == Dict([k \in {x \in DOMAIN f : f[x].t # "absent"} |-> f[k]])

Citation(page, body, extra) ==
    DictOf([note_page |-> page, note_body |-> body, note_extra |-> extra])
Document(data, citations) == DictOf([data |-> data, citations |-> citations])
DocData(title, file_title) ==
    DictOf([doc_title |-> title, doc_file_name_title |-> file_title])

\* Every combination of note_page absent or 5 and of note_body and
\* note_extra absent, empty or a text.
CitationInputs ==
    {Citation(p, q, a) :
        p \in {NoKey, Num(<<"5">>)},
        q \in {NoKey, Str(<<>>), Str(<<"Q">>)},
        a \in {NoKey, Str(<<>>), Str(<<"N">>)}}

TitleAB == Str(<<"A", "B">>)
TitleASlashB == Str(<<"A", "/", "B">>)
Good5 == Citation(Num(<<"5">>), Str(<<"Q">>), Str(<<"N">>))
GoodNoPage == Citation(NoKey, Str(<<"R">>), Str(<<"M">>))
GoodS == Citation(Num(<<"7">>), Str(<<"S">>), Str(<<"N">>))
NoQuote == Citation(Num(<<"5">>), Str(<<>>), Str(<<"N">>))

TitleCD == Str(<<"C", "D">>)
\* The documents of a many-document input: of three books, two of them with
\* titles that differ by a character sanitize_filename removes, each with
\* one of two citation lists; and a document without 'citations' and one
\* whose 'citations' is not a list.
DocInputs ==
    {Document(DocData(t, NoKey), c) :
        t \in {TitleAB, TitleASlashB, TitleCD},
        c \in {List(<<Good5, NoQuote, GoodNoPage>>), List(<<GoodS>>)}}
    \cup {Document(DocData(TitleAB, NoKey), c) : c \in {NoKey, Str(<<"x">>)}}

\* Every way the two title fields can be absent, null, empty or a text.
TitleFieldInputs(text) == {NoKey, None, Str(<<>>), Str(text)}
TitleDocInputs ==
    {Document(DocData(t, f), List(<<Good5>>)) :
        t \in TitleFieldInputs(<<"A", "B">>),
        f \in TitleFieldInputs(<<"C", "D">>)}
    \cup {Document(NoKey, List(<<Good5>>))}

TopWithDocs(docs) == Dict([docs |-> docs])

\* Parsed JSON values with a 'docs' list.
DataInputs ==
    {TopWithDocs(List(ds)) : ds \in SeqsUpTo(DocInputs, MaxDocs)}
    \cup {TopWithDocs(List(<<Document(DocData(TitleAB, NoKey), List(cs))>>)) :
             cs \in SeqsUpTo(CitationInputs, MaxCits)}
    \cup {TopWithDocs(List(<<d>>)) : d \in TitleDocInputs}

\* Parsed JSON values without a 'docs' list, of every JSON type.
NoDocsInputs ==
    {None, Num(<<"5">>), Bool(TRUE), Str(<<"x">>), Str(DocsKey),
     List(<<>>), List(<<Str(DocsKey)>>), List(<<Num(<<"5">>)>>),
     EmptyDict, Dict([other |-> List(<<>>)]),
     TopWithDocs(None), TopWithDocs(Str(<<"x">>)), TopWithDocs(EmptyDict)}

FileInputs ==
    {[exists |-> FALSE, valid_json |-> FALSE, data |-> None],
     [exists |-> TRUE, valid_json |-> FALSE, data |-> None]}
    \cup {[exists |-> TRUE, valid_json |-> TRUE, data |-> d] :
             d \in DataInputs \cup NoDocsInputs}

(***************************************************************************)
(* The run of the program.                                                 *)
(***************************************************************************)
Idle ==
    /\ title_in = None
    /\ anns_in = <<>>
    /\ name_out = <<>>

Init ==
    /\ pc = "start"
    /\ file \in FileInputs
    /\ pdf \in BOOLEAN
    /\ all_annotations_data = <<>>
    /\ books_order = <<>>
    /\ books_data = <<>>
    /\ next_book = 1
    /\ files = <<>>
    /\ writes = <<>>
    /\ stdout = <<>>
    /\ exit_status = "running"
    /\ Idle

\* Line 158. An exception leaving extract_annotations_from_json is caught
\* nowhere: the interpreter prints the traceback and exits with status 1.
Extract ==
    /\ pc = "start"
    /\ LET r == extract_annotations_from_json(file)
       IN  /\ all_annotations_data' = r.value
           /\ stdout' = stdout \o r.out
           /\ pc' = IF r.raised THEN "crashed" ELSE "extracted"
           /\ exit_status' = IF r.raised THEN "traceback" ELSE exit_status
    /\ UNCHANGED <<file, pdf, books_order, books_data, next_book, files,
                   writes, title_in, anns_in, name_out>>

\* Lines 160-164.
CheckEmpty ==
    /\ pc = "extracted"
    /\ IF all_annotations_data = <<>>
       THEN /\ stdout' = Append(stdout, Msg("no_annotations_found", None))
            /\ exit_status' = "0"
            /\ pc' = "exited"
       ELSE /\ pc' = IF pdf THEN "group" ELSE "console"
            /\ UNCHANGED <<stdout, exit_status>>
    /\ UNCHANGED <<file, pdf, all_annotations_data, books_order, books_data,
                   next_book, files, writes, title_in, anns_in, name_out>>

\* Lines 165-180.
Group ==
    /\ pc = "group"
    /\ LET g == group_loop(all_annotations_data, 1, <<>>, <<>>)
       IN  /\ books_order' = g.order
           /\ books_data' = g.data
           /\ IF g.order = <<>>
              THEN /\ stdout' = Append(stdout, Msg("no_books_found", None))
                   /\ pc' = "done"
                   /\ exit_status' = "0"
              ELSE /\ pc' = "render"
                   /\ UNCHANGED <<stdout, exit_status>>
    /\ next_book' = 1
    /\ UNCHANGED <<file, pdf, all_annotations_data, files, writes, title_in,
                   anns_in, name_out>>

\* Lines 181-182: one iteration of the loop over books_data.items().
RenderBook ==
    /\ pc = "render"
    /\ next_book <= Len(books_order)
    /\ \E outcome \in RenderOutcomes :
         LET book_title == books_order[next_book]
             r == save_book_to_pdf(book_title, books_data[book_title],
                                   outcome, files)
             last == next_book = Len(books_order)
         IN  /\ files' = r.files
             /\ writes' = writes \o r.written
             /\ stdout' = stdout \o r.out
             /\ next_book' = next_book + 1
             /\ pc' = IF r.raised THEN "crashed"
                      ELSE IF last THEN "done" ELSE "render"
             /\ exit_status' = IF r.raised THEN "traceback"
                               ELSE IF last THEN "0" ELSE exit_status
    /\ UNCHANGED <<file, pdf, all_annotations_data, books_order, books_data,
                   title_in, anns_in, name_out>>

\* Lines 184-191.
PrintConsole ==
    /\ pc = "console"
    /\ stdout' = stdout \o <<Msg("console_header", None)>>
                   \o [k \in 1..Len(all_annotations_data) |->
                          console_block(all_annotations_data[k])]
    /\ pc' = "done"
    /\ exit_status' = "0"
    /\ UNCHANGED <<file, pdf, all_annotations_data, books_order, books_data,
                   next_book, files, writes, title_in, anns_in, name_out>>

Next == Extract \/ CheckEmpty \/ Group \/ RenderBook \/ PrintConsole

Spec == Init /\ [][Next]_vars

(***************************************************************************)
(* Direct calls of sanitize_filename and save_book_to_pdf, on titles and   *)
(* annotation lists of the caller's choice.                                *)
(***************************************************************************)
Pad(k) == [i \in 1..k |-> "x"]
ExampleTitle ==
    <<"M", "y", "/", "B", "o", "o", "k", " ", "T", "i", "t", "l", "e">>
\* Short titles: every title of a removed character, a space, an
\* underscore and a letter, and one title for each removed character.
TitlePrefixes ==
    SeqsUpTo({"/", " ", "_", "A"}, MaxTitleLen)
    \cup {<<"A", c, " ">> : c \in IllegalChars}

\* A short title, alone or followed by a run of ordinary characters that
\* ends just before, at or after the cut of line 75, and by a tail with a
\* removed character, a space and an ordinary character.
TitleInputs ==
    {p \o Pad(k) \o tail :
        p \in TitlePrefixes,
        k \in {0, TruncLen - 1, TruncLen},
        tail \in {<<>>, <<"/", " ", "B">>}}
    \cup {ExampleTitle}

RowInputs ==
    {[page_number |-> p, quote |-> Str(<<"Q">>), annotation |-> a] :
        p \in {None, Num(<<"5">>)}, a \in {Str(<<"N">>), Str(<<"M">>)}}

SaveTitleInputs ==
    {TitleAB, TitleASlashB, Str(<<>>), Str(ExampleTitle),
     Str(Pad(TruncLen) \o <<"/", " ", "B">>)}

InitCalls ==
    /\ \/ /\ pc = "sanitize_call"
          /\ title_in \in {Str(t) : t \in TitleInputs}
          /\ anns_in = <<>>
       \/ /\ pc = "save_call"
          /\ title_in \in SaveTitleInputs
          /\ anns_in \in SeqsUpTo(RowInputs, MaxCits)
    /\ name_out = <<>>
    /\ file = [exists |-> FALSE, valid_json |-> FALSE, data |-> None]
    /\ pdf = TRUE
    /\ all_annotations_data = <<>>
    /\ books_order = <<>>
    /\ books_data = <<>>
    /\ next_book = 1
    /\ files = <<>>
    /\ writes = <<>>
    /\ stdout = <<>>
    /\ exit_status = "running"

\* sanitize_filename(title_in)
SanitizeCall ==
    /\ pc = "sanitize_call"
    /\ name_out' = sanitize_filename(title_in.v)
    /\ pc' = "sanitize_done"
    /\ UNCHANGED <<file, pdf, all_annotations_data, books_order, books_data,
                   next_book, files, writes, stdout, exit_status, title_in,
                   anns_in>>

\* save_book_to_pdf(title_in, anns_in)
SaveCall ==
    /\ pc = "save_call"
    /\ \E outcome \in RenderOutcomes :
         LET r == save_book_to_pdf(title_in, anns_in, outcome, files)
         IN  /\ files' = r.files
             /\ writes' = writes \o r.written
             /\ stdout' = stdout \o r.out
             /\ pc' = IF r.raised THEN "save_raised" ELSE "save_done"
    /\ UNCHANGED <<file, pdf, all_annotations_data, books_order, books_data,
                   next_book, exit_status, title_in, anns_in, name_out>>

NextCalls == SanitizeCall \/ SaveCall

SpecCalls == InitCalls /\ [][NextCalls]_vars

(***************************************************************************)
(* Properties.                                                             *)
(***************************************************************************)
\* What was printed so far.
Printed(kind) == \E k \in 1..Len(stdout) : stdout[k].kind = kind
CountKind(kinds) == Cardinality({k \in 1..Len(stdout) : stdout[k].kind \in kinds})

\* The input's list of documents, when it has one.
HasDocsList ==
    /\ file.exists
    /\ file.valid_json
    /\ file.data.t = "dict"
    /\ "docs" \in DOMAIN file.data.v
    /\ file.data.v["docs"].t = "list"
InputDocs == file.data.v["docs"].v

\* The citations of document i: those of its 'citations' list, none when
\* 'citations' is absent or not a list.
CitationsOf(i) ==
    LET d == InputDocs[i].v
    IN  IF "citations" \in DOMAIN d /\ d["citations"].t = "list"
        THEN d["citations"].v ELSE <<>>

\* A field of a citation is present and non-empty.
PresentNonEmpty(c, key) ==
    /\ key \in DOMAIN c.v
    /\ c.v[key].t = "str"
    /\ Len(c.v[key].v) > 0

\* The positions <<document, citation>> of the qualifying citations.
Qualifying ==
    {p \in UNION {{<<i, j>> : j \in 1..Len(CitationsOf(i))} :
                     i \in 1..Len(InputDocs)} :
        /\ PresentNonEmpty(CitationsOf(p[1])[p[2]], "note_body")
        /\ PresentNonEmpty(CitationsOf(p[1])[p[2]], "note_extra")}
Before(p, q) == p[1] < q[1] \/ (p[1] = q[1] /\ p[2] < q[2])
\* The place of a qualifying citation in document order, then citation order.
Rank(p) == 1 + Cardinality({q \in Qualifying : Before(q, p)})

\* C1: for an input whose 'docs' is a list of documents, the records
\* returned are exactly the qualifying citations (note_body and note_extra
\* both present and non-empty), one record each, in document order and then
\* citation order; a document of N citations of which K qualify contributes
\* K records, and a document whose 'citations' is absent or not a list
\* contributes none and does not stop the documents after it.
C1_ExtractionExact ==
    (pc # "start" /\ HasDocsList) =>
        /\ Len(all_annotations_data) = Cardinality(Qualifying)
        /\ \A p \in Qualifying :
             LET c == CitationsOf(p[1])[p[2]].v
                 r == all_annotations_data[Rank(p)]
             IN  /\ r.quote = c["note_body"]
                 /\ r.annotation = c["note_extra"]
                 /\ r.page_number =
                      IF "note_page" \in DOMAIN c THEN c["note_page"] ELSE None

\* C1 witness: extraction has returned on three documents, the second with
\* 'citations' absent or not a list, the first with three citations of which
\* two qualify, the third contributing a record.
C1_Witness ==
    /\ pc = "extracted"
    /\ HasDocsList
    /\ Len(InputDocs) = 3
    /\ Len(CitationsOf(1)) = 3
    /\ Cardinality({p \in Qualifying : p[1] = 1}) = 2
    /\ "citations" \in DOMAIN InputDocs[2].v
    /\ InputDocs[2].v["citations"].t # "list"
    /\ Cardinality({p \in Qualifying : p[1] = 3}) = 1
    /\ Len(all_annotations_data) = 3

\* The book name the resolution rule gives a document: doc_title when
\* present and non-empty, else doc_file_name_title when present and
\* non-empty, else "Unknown Title".
ResolvedName(doc) ==
    LET data == IF "data" \in DOMAIN doc.v THEN doc.v["data"] ELSE EmptyDict
    IN  IF PresentNonEmpty(data, "doc_title") THEN data.v["doc_title"]
        ELSE IF PresentNonEmpty(data, "doc_file_name_title")
             THEN data.v["doc_file_name_title"]
             ELSE Str(UnknownTitle)

\* The title fields a document has are strings.
TitleFieldsAreStrings(doc) ==
    "data" \in DOMAIN doc.v =>
        \A key \in DOMAIN doc.v["data"].v : doc.v["data"].v[key].t = "str"

Unusable == ~HasDocsList

\* C3: on an unusable input the extractor raises nothing and returns the
\* empty sequence, and the program prints its "no annotations" message and
\* exits with status 0, with no console block and no PDF file.
C3_UnusableInputExitsCleanly ==
    (Unusable /\ pc # "start") =>
        /\ pc # "crashed"
        /\ all_annotations_data = <<>>
        /\ pc # "extracted" =>
             /\ pc = "exited"
             /\ exit_status = "0"
             /\ Printed("no_annotations_found")
             /\ ~Printed("block")
             /\ files = <<>>

\* Every book title of the run is a string.
TitlesAreStrings == \A i \in 1..Len(books_order) : books_order[i].t = "str"
RenderReports == {"successfully_generated", "error_generating_pdf"}

\* C4: in PDF mode no failure of rendering one book ends the run: each book
\* taken from the groups so far was either written or reported as failed,
\* and the loop goes on to the books after it.
C4_RenderFailureContained ==
    (books_order # <<>> /\ TitlesAreStrings) =>
        /\ pc # "crashed"
        /\ CountKind(RenderReports) = next_book - 1

\* C5: save_book_to_pdf called with an empty annotation list writes a
\* document holding the title and the notice in place of the table.
C5_EmptyListStillWritten ==
    (pc = "save_done" /\ anns_in = <<>> /\ Printed("error_generating_pdf") = FALSE) =>
        \E path \in DOMAIN files :
            /\ files[path].title = title_in.v
            /\ files[path].notice
            /\ files[path].rows = <<>>

\* The distinct book names among the records.
BookNames ==
    {all_annotations_data[k].book_name : k \in 1..Len(all_annotations_data)}

\* C6: a PDF run in which no render fails leaves one file per distinct book
\* name, so no book's document is written over another's.
C6_OneFilePerBook ==
    (pdf /\ pc = "done" /\ CountKind({"successfully_generated"}) = Len(books_order)
        /\ books_order # <<>>) =>
        /\ Cardinality(DOMAIN files) = Cardinality(BookNames)
        /\ \A i \in 1..Len(writes) : \A j \in 1..Len(writes) :
             i # j => writes[i] # writes[j]

NotAvailable == <<"N", "/", "A">>

\* C7: in every document written for a book, the page cell of a row is the
\* placeholder "N/A" when the record has no page number and the page number
\* as given otherwise, never a stringified null.
C7_PagePlaceholder ==
    \A i \in 1..Len(books_order) :
        LET b == books_order[i]
            path == pdf_filename(BasePath, sanitize_filename(b.v))
        IN  (b.t = "str" /\ path \in DOMAIN files /\ files[path].title = b.v) =>
                \A k \in 1..Len(files[path].rows) :
                    LET page == books_data[b][k].page_number
                    IN  files[path].rows[k].page =
                            IF page = None THEN NotAvailable ELSE page.v

\* The places of title t whose character is none of \ / * ? : " < > |.
KeptPlaces(t) == {i \in 1..Len(t) : t[i] \notin {"\\", "/", "*", "?", ":", "\"", "<", ">", "|"}}
\* name is title t without the removed characters, a space written as an
\* underscore, cut to its first 200 characters: the n-th kept character of
\* t, for n up to 200, is the n-th character of name.
IsSanitized(name, t) ==
    LET kept == KeptPlaces(t)
    IN  /\ Len(name) = Min(200, Cardinality(kept))
        /\ \A i \in kept :
             LET n == Cardinality({j \in kept : j <= i})
             IN  n <= 200 => name[n] = IF t[i] = " " THEN "_" ELSE t[i]

ExampleFileName ==
    <<"M", "y", "B", "o", "o", "k", "_", "T", "i", "t", "l", "e">> \o Suffix

\* C8: sanitize_filename returns the title without the characters
\* \ / * ? : " < > |, with every space written as an underscore, cut to its
\* first 200 characters: the result holds none of those characters, no
\* space, and at most 200 characters; the file written for the title is
\* named by the result followed by "_Annotations.pdf", and "My/Book Title"
\* gives "MyBook_Title_Annotations.pdf".
C8_SanitizedName ==
    /\ pc = "sanitize_done" =>
         /\ IsSanitized(name_out, title_in.v)
         /\ Len(name_out) <= 200
         /\ \A i \in 1..Len(name_out) :
              name_out[i] \notin {"\\", "/", "*", "?", ":", "\"", "<", ">", "|", " "}
         /\ title_in.v = ExampleTitle =>
              name_out \o Suffix = ExampleFileName
    /\ (pc = "save_done" /\ writes # <<>>) =>
         /\ Len(writes) = 1
         /\ Len(writes[1]) >= Len(BasePath) + 1 + Len(Suffix)
         /\ SubSeq(writes[1], 1, Len(BasePath) + 1) = BasePath \o <<"/">>
         /\ SubSeq(writes[1], Len(writes[1]) - Len(Suffix) + 1, Len(writes[1]))
              = Suffix
         /\ IsSanitized(SubSeq(writes[1], Len(BasePath) + 2,
                               Len(writes[1]) - Len(Suffix)),
                        title_in.v)
         /\ title_in.v = ExampleTitle =>
              writes = <<BasePath \o <<"/">> \o ExampleFileName>>

\* C8 witness: sanitize_filename has returned for a title with a removed
\* character, a space and more than 200 kept characters.
C8_Witness ==
    /\ pc = "sanitize_done"
    /\ \E i \in 1..Len(title_in.v) : title_in.v[i] \in IllegalChars
    /\ \E i \in 1..Len(title_in.v) : title_in.v[i] = " "
    /\ Cardinality(KeptPlaces(title_in.v)) > 200
    /\ Len(name_out) = 200

\* C5 witness of the call: save_book_to_pdf has returned from a call with an
\* empty annotation list.
C5_EmptyCallReturned ==
    /\ pc = "save_done"
    /\ anns_in = <<>>

\* The records of book b, in the order of the record sequence.
RecordsOf(b) == SelectSeq(all_annotations_data, LAMBDA r : r.book_name = b)
\* The place of the first record of book b in the record sequence.
FirstSeen(b) ==
    CHOOSE k \in 1..Len(all_annotations_data) :
        /\ all_annotations_data[k].book_name = b
        /\ \A j \in 1..(k - 1) : all_annotations_data[j].book_name # b
Grouped == pdf /\ pc \in {"render", "done", "crashed"} /\ books_order # <<>>
\* The messages of the renders so far, in order.
RenderLog == SelectSeq(stdout, LAMBDA m : m.kind \in RenderReports)

\* C9: grouping keeps the order: the books are in the order in which their
\* names first appear among the records and are rendered in that order, and
\* the rows of a book are its records in the order of the record sequence.
C9_GroupingKeepsOrder ==
    Grouped =>
        /\ \A i \in 1..Len(books_order) : \A j \in 1..Len(books_order) :
             i < j => FirstSeen(books_order[i]) < FirstSeen(books_order[j])
        /\ \A i \in 1..Len(books_order) :
             LET b == books_order[i]
             IN  /\ Len(books_data[b]) = Len(RecordsOf(b))
                 /\ \A k \in 1..Len(books_data[b]) :
                      /\ books_data[b][k].quote = RecordsOf(b)[k].quote
                      /\ books_data[b][k].annotation = RecordsOf(b)[k].annotation
                      /\ books_data[b][k].page_number = RecordsOf(b)[k].page_number
        /\ \A i \in 1..Len(RenderLog) :
             LET b == books_order[i]
                 m == RenderLog[i]
             IN  IF m.kind = "error_generating_pdf" THEN m.arg = b
                 ELSE /\ m.arg.v = pdf_filename(BasePath, sanitize_filename(b.v))
                      /\ m.arg.v \in DOMAIN files
        /\ \A i \in 1..Len(books_order) :
             LET b == books_order[i]
                 path == pdf_filename(BasePath, sanitize_filename(b.v))
             IN  (b.t = "str" /\ path \in DOMAIN files
                     /\ files[path].title = b.v) =>
                     /\ Len(files[path].rows) = Len(RecordsOf(b))
                     /\ \A k \in 1..Len(RecordsOf(b)) :
                          /\ files[path].rows[k].quote = RecordsOf(b)[k].quote.v
                          /\ files[path].rows[k].annotation
                               = RecordsOf(b)[k].annotation.v

\* C9 witness: every book was rendered in a run whose records go book,
\* another book, the first book again, with different records.
C9_Witness ==
    /\ pdf
    /\ pc = "done"
    /\ Len(books_order) = 2
    /\ Cardinality(DOMAIN files) = 2
    /\ \E i \in 1..Len(all_annotations_data) :
       \E j \in 1..Len(all_annotations_data) :
       \E k \in 1..Len(all_annotations_data) :
         /\ i < j /\ j < k
         /\ all_annotations_data[i].book_name = all_annotations_data[k].book_name
         /\ all_annotations_data[i].book_name # all_annotations_data[j].book_name
         /\ all_annotations_data[i].quote # all_annotations_data[k].quote

\* The number of records of all the groups of order[1..n].
RECURSIVE GroupSizes(_)
GroupSizes(n) ==
    IF n = 0 THEN 0 ELSE Len(books_data[books_order[n]]) + GroupSizes(n - 1)

\* C10: the groups are a partition of the records: the keys are the distinct
\* book names, each once; the group of a name holds as many rows as there
\* are records of that name, the sizes add up to the number of records and
\* no group is empty; save_book_to_pdf is never called with an empty list
\* and "No books found" is never printed.
C10_GroupsPartitionRecords ==
    /\ (pdf /\ pc \in {"render", "done", "crashed"} /\ all_annotations_data # <<>>) =>
         /\ books_order # <<>>
         /\ {books_order[i] : i \in 1..Len(books_order)} = BookNames
         /\ DOMAIN books_data = BookNames
         /\ Cardinality(BookNames) = Len(books_order)
         /\ \A b \in BookNames :
              /\ Len(books_data[b]) =
                   Cardinality({k \in 1..Len(all_annotations_data) :
                                   all_annotations_data[k].book_name = b})
              /\ Len(books_data[b]) >= 1
         /\ GroupSizes(Len(books_order)) = Len(all_annotations_data)
    /\ ~Printed("no_books_found")
    /\ ~Printed("no_annotations_to_save")

\* C10 witness: a run has grouped five records into two books.
C10_Witness ==
    /\ pdf
    /\ pc = "render"
    /\ Len(all_annotations_data) >= 5
    /\ Len(books_order) = 2

====
